---------------------------- MODULE Spec2Model ----------------------------
(***************************************************************************)
(* Model of the thasa-wallet-adapter query layer: the request helper       *)
(* (request), the address validator (isValidBech32Address), the balance    *)
(* fetcher (getBalances / _getBalances) and the aggregation operations     *)
(* (getMyWalletInfo, getWalletInfo, getMyAccountInfo).                     *)
(*                                                                         *)
(* One call is in progress at a time.  A call suspends at every await; the *)
(* HTTP client and the blockchain node settle the pending promises in any  *)
(* order and with any outcome.                                             *)
(***************************************************************************)
EXTENDS Integers, Sequences, FiniteSets, TLC

VARIABLES
    op,         \* the public operation in progress ("none" when idle)
    pc,         \* the await the operation is suspended at
    args,       \* the arguments the caller passed
    http,       \* "idle" | "inflight": the axios promise of request()
    reqResult,  \* what request() returned or threw
    data,       \* protoResponse.data, the payload the operation works on
    received,   \* the wallet list as it arrived from the metadata call
    lastHttp,   \* how the HTTP call of this operation settled
    prev,       \* what the caller saw of the call before this one (history)
    fetches,    \* the _getBalances calls started, in start order
    pall,       \* the Promise.all over the per-wallet fetches
    completed,  \* node queries in the order they completed: <<fetch, query>>
    outcome,    \* what the caller of the operation observes
    httpCalls,  \* calls made on the HTTP client during this call
    nodeCalls   \* calls made on the blockchain node during this call

vars == <<op, pc, args, http, reqResult, data, received, lastHttp, prev, fetches, pall,
          completed, outcome, httpCalls, nodeCalls>>

-----------------------------------------------------------------------------
(* Bounds of the model. *)

MaxWallets == 2
MaxDenoms == 2

-----------------------------------------------------------------------------
(* bech32.decode, as called by isValidBech32Address. *)

\* The address strings the caller may pass, spelled out character by character.
AddrChars ==
    [ a12uel5l   |-> <<"a","1","2","u","e","l","5","l">>,
      th1zpjsmyh |-> <<"t","h","1","z","p","j","s","m","y","h">>,
      A12UEL5L   |-> <<"A","1","2","U","E","L","5","L">>,
      a12uel5x   |-> <<"a","1","2","u","e","l","5","x">>,
      a12uel5b   |-> <<"a","1","2","u","e","l","5","b">>,
      a12uEl5l   |-> <<"a","1","2","u","E","l","5","l">>,
      a1uel5l    |-> <<"a","1","u","e","l","5","l">>,
      q12uel5lq  |-> <<"1","2","u","e","l","5","l","q">>,
      abcd1qpz   |-> <<"a","b","c","d","1","q","p","z">>,
      notanaddr  |-> <<"n","o","t","-","a","-","v","a","l","i","d","-",
                       "a","d","d","r","e","s","s">>,
      empty      |-> <<>> ]

AddressInputs == DOMAIN AddrChars

ALPHABET ==
    <<"q","p","z","r","y","9","x","8","g","f","2","t","v","d","w","0",
      "s","3","j","n","5","4","k","h","c","e","6","m","u","a","7","l">>

Uppers == <<"A","E","L","U">>
Lowers == <<"a","e","l","u">>

ToLower(c) ==
    IF \E i \in 1..Len(Uppers) : Uppers[i] = c
    THEN Lowers[CHOOSE i \in 1..Len(Uppers) : Uppers[i] = c]
    ELSE c

ToUpper(c) ==
    IF \E i \in 1..Len(Lowers) : Lowers[i] = c
    THEN Uppers[CHOOSE i \in 1..Len(Lowers) : Lowers[i] = c]
    ELSE c

\* charCodeAt for the characters a prefix of AddressInputs can hold.
CharCode(c) ==
    CASE c = "a" -> 97  [] c = "b" -> 98  [] c = "c" -> 99  [] c = "d" -> 100
      [] c = "h" -> 104 [] c = "t" -> 116 [] c = "q" -> 113
      [] OTHER -> 63

RECURSIVE Xor(_, _)
Xor(a, b) ==
    IF a = 0 THEN b
    ELSE IF b = 0 THEN a
    ELSE (((a % 2) + (b % 2)) % 2) + (2 * Xor(a \div 2, b \div 2))

GENERATOR == <<996825010, 642813549, 513874426, 1027748829, 705979059>>

RECURSIVE XorGen(_, _, _)
XorGen(chk, b, i) ==
    IF i > 5 THEN chk
    ELSE XorGen(IF (b \div (2 ^ (i - 1))) % 2 = 1 THEN Xor(chk, GENERATOR[i]) ELSE chk,
                b, i + 1)

polymodStep(pre) ==
    XorGen((pre % (2 ^ 25)) * 32, pre \div (2 ^ 25), 1)

RECURSIVE PrefixHigh(_, _, _)
PrefixHigh(prefix, i, chk) ==
    IF i > Len(prefix) THEN chk
    ELSE PrefixHigh(prefix, i + 1, Xor(polymodStep(chk), (CharCode(prefix[i]) \div 32)))

RECURSIVE PrefixLow(_, _, _)
PrefixLow(prefix, i, chk) ==
    IF i > Len(prefix) THEN chk
    ELSE PrefixLow(prefix, i + 1, Xor(polymodStep(chk), (CharCode(prefix[i]) % 32)))

prefixChk(prefix) ==
    PrefixLow(prefix, 1, polymodStep(PrefixHigh(prefix, 1, 1)))

AlphabetIndex(c) == CHOOSE i \in 1..Len(ALPHABET) : ALPHABET[i] = c

RECURSIVE WordsChk(_, _, _)
WordsChk(wordChars, i, chk) ==
    IF i > Len(wordChars) THEN chk
    ELSE WordsChk(wordChars, i + 1,
                  Xor(polymodStep(chk), AlphabetIndex(wordChars[i]) - 1))

LastIndexOf(str, c) ==
    IF \E i \in 1..Len(str) : str[i] = c
    THEN CHOOSE i \in 1..Len(str) :
            str[i] = c /\ \A j \in (i + 1)..Len(str) : str[j] # c
    ELSE 0

\* __decode: "ok" when the string decodes, else the reason it does not.
Bech32Decode(chars) ==
    LET lowered == [i \in 1..Len(chars) |-> ToLower(chars[i])]
        uppered == [i \in 1..Len(chars) |-> ToUpper(chars[i])]
        split == LastIndexOf(lowered, "1")
        prefix == SubSeq(lowered, 1, split - 1)
        wordChars == SubSeq(lowered, split + 1, Len(lowered))
    IN  IF Len(chars) < 8 THEN "too short"
        ELSE IF Len(chars) > 90 THEN "Exceeds length limit"
        ELSE IF chars # lowered /\ chars # uppered THEN "Mixed-case string"
        ELSE IF split = 0 THEN "No separator character"
        ELSE IF split = 1 THEN "Missing prefix"
        ELSE IF Len(wordChars) < 6 THEN "Data too short"
        ELSE IF \E i \in 1..Len(wordChars) :
                    \A k \in 1..Len(ALPHABET) : ALPHABET[k] # wordChars[i]
             THEN "Unknown character"
        ELSE IF WordsChk(wordChars, 1, prefixChk(prefix)) # 1
             THEN "Invalid checksum"
        ELSE "ok"

\* The decode result of every address input, computed once.
DecodeResult == [a \in AddressInputs |-> Bech32Decode(AddrChars[a])]

\* bech32.decode returns the decoded object or throws Error(reason).
DecodeThrows(address) == DecodeResult[address] # "ok"


\* What `decoded` holds when decode returns: always the decoded object.
DecodedIsFalsy(address) == FALSE

\* isValidBech32Address: "true", "false", or "throws" when the Error thrown
\* by bech32.decode leaves the function (there is no try around the call).
isValidBech32Address(address) ==
    IF DecodeThrows(address) THEN "throws"
    ELSE IF DecodedIsFalsy(address) THEN "false"
    ELSE "true"

-----------------------------------------------------------------------------
(* Values: errors, responses, wallets and coins. *)

ERR_BAD_REQUEST == "ERR_BAD_REQUEST"
ERR_BAD_RESPONSE == "ERR_BAD_RESPONSE"
ERR_UNKNOWN == "ERR_UNKNOWN"
ERR_DEFAULT == "ERR_DEFAULT"    \* the error kind when the constructor gets none

\* What a caller can observe.  kind is "none" while the call is running,
\* "response" for a returned ProtocolResponse, "protocolError" for a thrown
\* ProtocolError, "nativeError" for any other thrown value, "balances" for
\* the Coin list getBalances returns and "boolean" for the validator.
NoOutcome == [kind |-> "none", status |-> 0, errKind |-> "", bal |-> <<>>]

ProtocolError(status, errKind) ==
    [kind |-> "protocolError", status |-> status, errKind |-> errKind, bal |-> <<>>]

ProtocolResponse(status) ==
    [kind |-> "response", status |-> status, errKind |-> "", bal |-> <<>>]

NativeError ==
    [kind |-> "nativeError", status |-> 0, errKind |-> "", bal |-> <<>>]

BalancesResult(balances) ==
    [kind |-> "balances", status |-> 0, errKind |-> "", bal |-> balances]

BooleanResult(b) ==
    [kind |-> "boolean", status |-> IF b THEN 1 ELSE 0, errKind |-> "", bal |-> <<>>]

\* The addresses the REST service and the node know: the inputs that decode.
NoAddr == "undefined"
ChainAddrs == {"a12uel5l", "th1zpjsmyh"}
MetaAddrs == ChainAddrs \cup {NoAddr}

Denoms == <<"uluna", "uthasa">>

AddrIndex(address) == IF address = "a12uel5l" THEN 1 ELSE 2

\* The node's ledger: a different amount for every address and denomination.
Amount(address, d) == (AddrIndex(address) * 100) + d

NodeBalance(address, denom) ==
    [denom |-> denom,
     amount |-> Amount(address, CHOOSE d \in 1..Len(Denoms) : Denoms[d] = denom)]

NodeAllBalances(address) ==
    [d \in 1..Len(Denoms) |-> NodeBalance(address, Denoms[d])]

Wallet(address) == [address |-> address, hasBalances |-> FALSE, balances |-> <<>>]

NoWallet == Wallet(NoAddr)

\* protoResponse.data.  shape: "null" (null or undefined), "empty" (the
\* empty string of a response without a body) or "object".  For
\* getMyWalletInfo the object holds `wallets`, for getMyAccountInfo
\* `mainWallet`, for getWalletInfo it is itself a wallet record.
NullData ==
    [shape |-> "null", hasWallets |-> FALSE, wallets |-> <<>>,
     hasMainWallet |-> FALSE, mainWallet |-> NoWallet,
     address |-> NoAddr, hasBalances |-> FALSE, balances |-> <<>>]

EmptyData == [NullData EXCEPT !.shape = "empty"]

ObjData == [NullData EXCEPT !.shape = "object"]

FalsyDataNever(d) == FALSE

\* !data
FalsyData(d) == d.shape # "object"

RECURSIVE SeqsUpTo(_, _)
SeqsUpTo(S, n) ==
    IF n = 0 THEN {<<>>}
    ELSE LET shorter == SeqsUpTo(S, n - 1)
         IN  shorter \cup {Append(s, x) : s \in {t \in shorter : Len(t) = n - 1}, x \in S}

WalletLists == SeqsUpTo({Wallet(a) : a \in MetaAddrs}, MaxWallets)

DenomLists == SeqsUpTo({Denoms[d] : d \in 1..Len(Denoms)}, MaxDenoms)

\* The 2xx payloads the REST service may answer an operation with.
Payloads(operation) ==
    CASE operation = "getMyWalletInfo" ->
            {NullData, EmptyData, ObjData}
            \cup {[ObjData EXCEPT !.hasWallets = TRUE, !.wallets = ws] : ws \in WalletLists}
      [] operation = "getWalletInfo" ->
            {NullData, EmptyData} \cup {[ObjData EXCEPT !.address = a] : a \in MetaAddrs}
      [] operation = "getMyAccountInfo" ->
            {NullData, EmptyData, ObjData}
            \cup {[ObjData EXCEPT !.hasMainWallet = TRUE, !.mainWallet = Wallet(a)] :
                    a \in MetaAddrs}
      [] OTHER -> {NullData, EmptyData, ObjData}

-----------------------------------------------------------------------------
(* The request helper. *)

RequestMethod == {"GET", "POST", "PATCH", "PUT", "DELETE", "OPTIONS"}

\* The method values a caller can pass: the enum and one value outside it.
MethodInputs == RequestMethod \cup {"TRACE"}

UndefinedUrl == "<undefined>"
SomeUrl == "/api/query/user-account/my-account"
UrlInputs == {UndefinedUrl, "", SomeUrl}

\* !url
Falsy(url) == url \in {UndefinedUrl, ""}

\* An exception value inside request(): its class, and the HTTP status of the
\* response it carries, when it carries one.
Thrown(type, hasResponse, status) ==
    [kind |-> "rejected", type |-> type, hasResponse |-> hasResponse,
     status |-> status, data |-> NullData]

NoHttp ==
    [kind |-> "none", type |-> "", hasResponse |-> FALSE, status |-> 0, data |-> NullData]

\* ProtocolError.fromAxiosError: the status of the HTTP response when there
\* is one, the generic 500 when the request never got a response.
FromAxiosError(err) ==
    ProtocolError(IF err.hasResponse THEN err.status ELSE 500, ERR_UNKNOWN)

\* ProtocolError.fromError: any other exception becomes the generic failure.
FromError(err) == ProtocolError(500, ERR_UNKNOWN)

\* How the HTTP call of one request may settle.
OkStatuses(operation) == IF operation = "request" THEN {200, 201} ELSE {200}

HttpOutcomes(operation) ==
    {[kind |-> "fulfilled", type |-> "", hasResponse |-> TRUE, status |-> st, data |-> d] :
        st \in OkStatuses(operation), d \in Payloads(operation)}
    \cup {Thrown("AxiosError", TRUE, st) : st \in {401, 404}}
    \cup {Thrown("AxiosError", FALSE, 0), Thrown("Error", FALSE, 0)}

RequestCatchAlwaysFromError(err) == FromError(err)

RequestCatchRethrowsOthers(err) ==
    IF err.type = "AxiosError" THEN FromAxiosError(err) ELSE NativeError

\* catch (err): an AxiosError goes through fromAxiosError, anything else
\* (a ProtocolError thrown inside the try included) through fromError.
RequestCatch(err) ==
    IF err.type = "AxiosError" THEN FromAxiosError(err) ELSE FromError(err)

RequestEntryNoUrlCheck(method, url) ==
    IF method \in RequestMethod
    THEN [issued |-> TRUE, result |-> NoOutcome]
    ELSE [issued |-> FALSE, result |-> RequestCatch(Thrown("ProtocolError", FALSE, 501))]

\* request() up to its await: the url check, then the switch.  issued: a
\* call was made on the HTTP client; otherwise result is what was thrown.
RequestEntry(method, url) ==
    IF Falsy(url)
    THEN [issued |-> FALSE, result |-> ProtocolError(400, ERR_DEFAULT)]
    ELSE IF method \in RequestMethod
    THEN [issued |-> TRUE, result |-> NoOutcome]
    ELSE [issued |-> FALSE, result |-> RequestCatch(Thrown("ProtocolError", FALSE, 501))]

\* request() after its await: the response copied into a ProtocolResponse,
\* or the catch block.
RequestSettled(o) ==
    IF o.kind = "fulfilled" THEN ProtocolResponse(o.status) ELSE RequestCatch(o)

-----------------------------------------------------------------------------
(* Promise.all and the balance fetches. *)

PromiseAll(n) ==
    [st |-> IF n = 0 THEN "fulfilled" ELSE "pending", values |-> <<>>, n |-> n]

NoPromiseAll == [st |-> "none", values |-> <<>>, n |-> 0]

PromiseAllStoreInCompletionOrder(values, index, v) ==
    values @@ ((Cardinality(DOMAIN values) + 1) :> v)

\* Promise.all keeps each fulfilment value at the index of its promise.
PromiseAllStore(values, index, v) == values @@ (index :> v)

PromiseAllFulfil(p, index, v) ==
    IF p.st # "pending" THEN p
    ELSE LET vals == PromiseAllStore(p.values, index, v)
         IN  [p EXCEPT !.values = vals,
                       !.st = IF Cardinality(DOMAIN vals) = p.n
                              THEN "fulfilled" ELSE "pending"]

\* Promise.all rejects with the first rejection.
PromiseAllReject(p) == IF p.st = "pending" THEN [p EXCEPT !.st = "rejected"] ELSE p

\* _getBalances(wallet, ...denoms) up to its first await: the call of
\* StargateClient.connect.
StartFetch(address, denoms) ==
    [address |-> address, denoms |-> denoms, st |-> "connecting",
     pending |-> {}, inner |-> NoPromiseAll, value |-> <<>>]

\* _getBalances after connect: one getBalance per denomination under a
\* Promise.all, or one getAllBalances.
FetchConnected(f) ==
    IF Len(f.denoms) > 0
    THEN [f EXCEPT !.st = "querying", !.pending = 1..Len(f.denoms),
                   !.inner = PromiseAll(Len(f.denoms))]
    ELSE [f EXCEPT !.st = "querying", !.pending = {1}]

FetchRejected(f) == [f EXCEPT !.st = "rejected"]

\* _getBalances when query j answers.
FetchQueryFulfilled(f, j) ==
    IF f.st # "querying" THEN [f EXCEPT !.pending = @ \ {j}]
    ELSE IF Len(f.denoms) > 0
    THEN LET inner == PromiseAllFulfil(f.inner, j, NodeBalance(f.address, f.denoms[j]))
         IN  [f EXCEPT !.pending = @ \ {j}, !.inner = inner,
                       !.st = IF inner.st = "fulfilled" THEN "fulfilled" ELSE "querying",
                       !.value = IF inner.st = "fulfilled" THEN inner.values ELSE <<>>]
    ELSE [f EXCEPT !.pending = @ \ {j}, !.st = "fulfilled",
                   !.value = NodeAllBalances(f.address)]

\* _getBalances when query j fails.
FetchQueryRejected(f, j) ==
    IF f.st # "querying" THEN [f EXCEPT !.pending = @ \ {j}]
    ELSE [f EXCEPT !.pending = @ \ {j}, !.st = "rejected",
                   !.inner = PromiseAllReject(f.inner)]

\* The Promise.all of getMyWalletInfo when fetch i changes from `before` to
\* `after`.
OuterSettle(p, i, before, after) ==
    IF before.st = after.st THEN p
    ELSE IF after.st = "fulfilled" THEN PromiseAllFulfil(p, i, after.value)
    ELSE IF after.st = "rejected" THEN PromiseAllReject(p)
    ELSE p

-----------------------------------------------------------------------------
(* The state machine. *)

NoArgs ==
    [method |-> "", url |-> "", address |-> NoAddr, denoms |-> <<>>, include |-> FALSE]

MyWalletUrl == "/api/query/wallet-account/my-wallet"
FindWalletUrl == "/api/query/wallet-account/find"
MyAccountUrl == "/api/query/user-account/my-account"

\* A caller's record of one finished call: what it passed, how the backends
\* answered and what it got back.
NoPrev ==
    [valid |-> FALSE, args |-> NoArgs, http |-> NoHttp, nodeFailed |-> FALSE,
     completed |-> <<>>, data |-> NullData, outcome |-> NoOutcome]

Init ==
    /\ op = "none"
    /\ pc = "idle"
    /\ args = NoArgs
    /\ http = "idle"
    /\ reqResult = NoOutcome
    /\ data = NullData
    /\ received = <<>>
    /\ lastHttp = NoHttp
    /\ prev = NoPrev
    /\ fetches = <<>>
    /\ pall = NoPromiseAll
    /\ completed = <<>>
    /\ outcome = NoOutcome
    /\ httpCalls = 0
    /\ nodeCalls = 0

\* An operation calls request(method, url) and suspends on it.
BeginRequest(operation, a, method, url) ==
    LET e == RequestEntry(method, url)
    IN  /\ op' = operation
        /\ args' = a
        /\ http' = IF e.issued THEN "inflight" ELSE "idle"
        /\ httpCalls' = IF e.issued THEN httpCalls + 1 ELSE httpCalls
        /\ reqResult' = e.result
        /\ pc' = IF e.issued THEN "await_request" ELSE "request_settled"
        /\ UNCHANGED <<data, received, lastHttp, prev, fetches, pall, completed, outcome, nodeCalls>>

\* The operation ends: the caller observes o.
Finish(o) ==
    /\ outcome' = o
    /\ pc' = "done"

\* The operation awaits one _getBalances call.
AwaitFetch(address, denoms) ==
    /\ fetches' = <<StartFetch(address, denoms)>>
    /\ nodeCalls' = nodeCalls + 1
    /\ pc' = "await_fetch"

\* ---- request(method, url) called directly

CallRequest(method, url) ==
    /\ op = "none"
    /\ BeginRequest("request", [NoArgs EXCEPT !.method = method, !.url = url],
                    method, url)

\* The HTTP client settles the call request() awaits.
HttpSettle(o) ==
    /\ pc = "await_request"
    /\ http = "inflight"
    /\ http' = "idle"
    /\ reqResult' = RequestSettled(o)
    /\ data' = IF o.kind = "fulfilled" THEN o.data ELSE data
    /\ received' = IF o.kind = "fulfilled" THEN o.data.wallets ELSE received
    /\ lastHttp' = o
    /\ pc' = "request_settled"
    /\ UNCHANGED <<op, args, prev, fetches, pall, completed, outcome, httpCalls, nodeCalls>>

RequestReturn ==
    /\ op = "request"
    /\ pc = "request_settled"
    /\ Finish(reqResult)
    /\ UNCHANGED <<op, args, http, reqResult, data, received, lastHttp, prev, fetches, pall,
                   completed, httpCalls, nodeCalls>>

\* ---- isValidBech32Address(address)

CallIsValidBech32Address(address) ==
    /\ op = "none"
    /\ op' = "isValidBech32Address"
    /\ args' = [NoArgs EXCEPT !.address = address]
    /\ LET v == isValidBech32Address(address)
       IN  Finish(IF v = "throws" THEN NativeError ELSE BooleanResult(v = "true"))
    /\ UNCHANGED <<http, reqResult, data, received, lastHttp, prev, fetches, pall, completed,
                   httpCalls, nodeCalls>>

\* ---- getBalances(address, ...denoms)

CallGetBalances(address, denoms) ==
    /\ op = "none"
    /\ op' = "getBalances"
    /\ args' = [NoArgs EXCEPT !.address = address, !.denoms = denoms]
    /\ AwaitFetch(address, denoms)
    /\ UNCHANGED <<http, reqResult, data, received, lastHttp, prev, pall, completed, outcome, httpCalls>>

GetBalancesReturn ==
    /\ op = "getBalances"
    /\ pc = "await_fetch"
    /\ fetches[1].st \in {"fulfilled", "rejected"}
    /\ Finish(IF fetches[1].st = "fulfilled"
              THEN BalancesResult(fetches[1].value) ELSE NativeError)
    /\ UNCHANGED <<op, args, http, reqResult, data, received, lastHttp, prev, fetches, pall,
                   completed, httpCalls, nodeCalls>>

\* ---- the blockchain node settles what the fetches await

ConnectSettle(i, ok) ==
    /\ i \in DOMAIN fetches
    /\ fetches[i].st = "connecting"
    /\ LET f == fetches[i]
           g == IF ok THEN FetchConnected(f) ELSE FetchRejected(f)
       IN  /\ fetches' = [fetches EXCEPT ![i] = g]
           /\ nodeCalls' = nodeCalls + Cardinality(g.pending)
           /\ pall' = OuterSettle(pall, i, f, g)
    /\ UNCHANGED <<op, pc, args, http, reqResult, data, received, lastHttp, prev, completed,
                   outcome, httpCalls>>

QuerySettle(i, j, ok) ==
    /\ i \in DOMAIN fetches
    /\ j \in fetches[i].pending
    /\ ok => fetches[i].address # NoAddr
    /\ LET f == fetches[i]
           g == IF ok THEN FetchQueryFulfilled(f, j) ELSE FetchQueryRejected(f, j)
       IN  /\ fetches' = [fetches EXCEPT ![i] = g]
           /\ pall' = OuterSettle(pall, i, f, g)
    /\ completed' = Append(completed, <<i, j>>)
    /\ UNCHANGED <<op, pc, args, http, reqResult, data, received, lastHttp, prev, outcome,
                   httpCalls, nodeCalls>>


MetadataOkAlways(r) == TRUE

\* try { protoResponse = await requestHelpers.request(...) ... } catch
\* (protoErr) { throw protoErr; }: the steps after the await run only when
\* request() returned; what it threw is thrown on to the caller.
MetadataOk(r) == r.kind = "response"

\* ---- getMyWalletInfo(..., includeBalances, ...)

CallGetMyWalletInfo(includeBalances) ==
    /\ op = "none"
    /\ BeginRequest("getMyWalletInfo", [NoArgs EXCEPT !.include = includeBalances],
                    "GET", MyWalletUrl)

MergeAllowedWhilePending(p) == p.st \in {"pending", "fulfilled"} /\ DOMAIN p.values # {}

\* await Promise.all(balancesPromises) has returned.
MergeAllowed(p) == p.st = "fulfilled"

MergeByIndexShifted(wallets, balancesArray) ==
    [i \in 1..Len(wallets) |->
        IF i \in DOMAIN balancesArray
        THEN [wallets[i] EXCEPT !.hasBalances = TRUE,
                                !.balances = balancesArray[(i % Len(wallets)) + 1]]
        ELSE wallets[i]]

\* balancesArray.forEach((balances, index) => wallets[index].balances = balances)
MergeByIndex(wallets, balancesArray) ==
    [i \in 1..Len(wallets) |->
        IF i \in DOMAIN balancesArray
        THEN [wallets[i] EXCEPT !.hasBalances = TRUE, !.balances = balancesArray[i]]
        ELSE wallets[i]]

FanOutFirstOnly(wallets) ==
    IF Len(wallets) = 0 THEN <<>> ELSE <<StartFetch(wallets[1].address, <<>>)>>

\* wallets.map(wallet => this._getBalances(wallet)): every call runs up to
\* its first await before map returns.
FanOut(wallets) == [i \in 1..Len(wallets) |-> StartFetch(wallets[i].address, <<>>)]

MyWalletAfterRequest ==
    /\ op = "getMyWalletInfo"
    /\ pc = "request_settled"
    /\ IF ~MetadataOk(reqResult)
       THEN Finish(reqResult) /\ UNCHANGED <<fetches, pall, nodeCalls>>
       ELSE IF data.shape = "null"
       THEN Finish(NativeError) /\ UNCHANGED <<fetches, pall, nodeCalls>>
       ELSE IF ~data.hasWallets
       THEN /\ Finish(ProtocolError(500, ERR_BAD_RESPONSE))
            /\ UNCHANGED <<fetches, pall, nodeCalls>>
       ELSE IF args.include
       THEN /\ fetches' = FanOut(data.wallets)
            /\ nodeCalls' = nodeCalls + Len(data.wallets)
            /\ pall' = PromiseAll(Len(data.wallets))
            /\ pc' = "await_all"
            /\ UNCHANGED outcome
       ELSE Finish(reqResult) /\ UNCHANGED <<fetches, pall, nodeCalls>>
    /\ UNCHANGED <<op, args, http, reqResult, data, received, lastHttp, prev, completed, httpCalls>>

MyWalletMerge ==
    /\ op = "getMyWalletInfo"
    /\ pc = "await_all"
    /\ MergeAllowed(pall)
    /\ data' = [data EXCEPT !.wallets = MergeByIndex(data.wallets, pall.values)]
    /\ Finish(reqResult)
    /\ UNCHANGED <<op, args, http, reqResult, received, lastHttp, prev, fetches, pall, completed,
                   httpCalls, nodeCalls>>

MyWalletRethrow ==
    /\ op = "getMyWalletInfo"
    /\ pc = "await_all"
    /\ pall.st = "rejected"
    /\ Finish(NativeError)
    /\ UNCHANGED <<op, args, http, reqResult, data, received, lastHttp, prev, fetches, pall,
                   completed, httpCalls, nodeCalls>>

\* ---- getWalletInfo(address, includeBalances)

CallGetWalletInfo(address, includeBalances) ==
    /\ op = "none"
    /\ LET v == isValidBech32Address(address)
           a == [NoArgs EXCEPT !.address = address, !.include = includeBalances]
       IN  IF v = "true"
           THEN BeginRequest("getWalletInfo", a, "GET", FindWalletUrl)
           ELSE /\ op' = "getWalletInfo"
                /\ args' = a
                /\ Finish(IF v = "throws" THEN NativeError
                          ELSE ProtocolError(400, ERR_BAD_REQUEST))
                /\ UNCHANGED <<http, reqResult, data, received, lastHttp, prev, fetches, pall,
                               completed, httpCalls, nodeCalls>>

WalletInfoAfterRequest ==
    /\ op = "getWalletInfo"
    /\ pc = "request_settled"
    /\ IF ~MetadataOk(reqResult)
       THEN Finish(reqResult) /\ UNCHANGED <<fetches, nodeCalls>>
       ELSE IF FalsyData(data)
       THEN /\ Finish(ProtocolError(500, ERR_BAD_RESPONSE))
            /\ UNCHANGED <<fetches, nodeCalls>>
       ELSE IF args.include
       THEN AwaitFetch(data.address, <<>>) /\ UNCHANGED outcome
       ELSE Finish(reqResult) /\ UNCHANGED <<fetches, nodeCalls>>
    /\ UNCHANGED <<op, args, http, reqResult, data, received, lastHttp, prev, pall, completed, httpCalls>>

WalletInfoAttach ==
    /\ op = "getWalletInfo"
    /\ pc = "await_fetch"
    /\ fetches[1].st \in {"fulfilled", "rejected"}
    /\ IF fetches[1].st = "fulfilled"
       THEN /\ data' = [data EXCEPT !.hasBalances = TRUE, !.balances = fetches[1].value]
            /\ Finish(reqResult)
       ELSE Finish(NativeError) /\ UNCHANGED data
    /\ UNCHANGED <<op, args, http, reqResult, received, lastHttp, prev, fetches, pall, completed,
                   httpCalls, nodeCalls>>

\* ---- getMyAccountInfo(..., includeMainWallet)

CallGetMyAccountInfo(includeMainWallet) ==
    /\ op = "none"
    /\ BeginRequest("getMyAccountInfo", [NoArgs EXCEPT !.include = includeMainWallet],
                    "GET", MyAccountUrl)

MainWalletWantedIgnoringFlag(d, includeMainWallet) == d.hasMainWallet

MainWalletWantedWithoutWallet(d, includeMainWallet) == includeMainWallet

\* if (mainWallet && includeMainWallet)
MainWalletWanted(d, includeMainWallet) == d.hasMainWallet /\ includeMainWallet

AccountAfterRequest ==
    /\ op = "getMyAccountInfo"
    /\ pc = "request_settled"
    /\ IF ~MetadataOk(reqResult)
       THEN Finish(reqResult) /\ UNCHANGED <<fetches, nodeCalls>>
       ELSE IF FalsyData(data)
       THEN /\ Finish(ProtocolError(500, ERR_BAD_RESPONSE))
            /\ UNCHANGED <<fetches, nodeCalls>>
       ELSE IF MainWalletWanted(data, args.include)
       THEN AwaitFetch(data.mainWallet.address, <<>>) /\ UNCHANGED outcome
       ELSE Finish(reqResult) /\ UNCHANGED <<fetches, nodeCalls>>
    /\ UNCHANGED <<op, args, http, reqResult, data, received, lastHttp, prev, pall, completed, httpCalls>>

AccountAttach ==
    /\ op = "getMyAccountInfo"
    /\ pc = "await_fetch"
    /\ fetches[1].st \in {"fulfilled", "rejected"}
    /\ IF fetches[1].st = "fulfilled"
       THEN /\ data' = [data EXCEPT !.mainWallet.hasBalances = TRUE,
                                    !.mainWallet.balances = fetches[1].value]
            /\ Finish(reqResult)
       ELSE Finish(NativeError) /\ UNCHANGED data
    /\ UNCHANGED <<op, args, http, reqResult, received, lastHttp, prev, fetches, pall, completed,
                   httpCalls, nodeCalls>>

\* ---- the caller has its result; the next call starts from scratch

EndCall ==
    /\ pc = "done"
    /\ op' = "none"
    /\ pc' = "idle"
    /\ args' = NoArgs
    /\ http' = "idle"
    /\ reqResult' = NoOutcome
    /\ data' = NullData
    /\ received' = <<>>
    /\ lastHttp' = NoHttp
    /\ fetches' = <<>>
    /\ pall' = NoPromiseAll
    /\ completed' = <<>>
    /\ outcome' = NoOutcome
    /\ httpCalls' = 0
    /\ nodeCalls' = 0

Return ==
    /\ EndCall
    /\ UNCHANGED prev

Next ==
    \/ \E method \in MethodInputs, url \in UrlInputs : CallRequest(method, url)
    \/ \E o \in HttpOutcomes(op) : HttpSettle(o)
    \/ RequestReturn
    \/ \E address \in AddressInputs : CallIsValidBech32Address(address)
    \/ \E address \in ChainAddrs, denoms \in DenomLists : CallGetBalances(address, denoms)
    \/ GetBalancesReturn
    \/ \E i \in 1..Len(fetches), ok \in BOOLEAN : ConnectSettle(i, ok)
    \/ \E i \in 1..Len(fetches), ok \in BOOLEAN :
          \E j \in fetches[i].pending : QuerySettle(i, j, ok)
    \/ \E includeBalances \in BOOLEAN : CallGetMyWalletInfo(includeBalances)
    \/ MyWalletAfterRequest
    \/ MyWalletMerge
    \/ MyWalletRethrow
    \/ \E address \in AddressInputs, includeBalances \in BOOLEAN :
          CallGetWalletInfo(address, includeBalances)
    \/ WalletInfoAfterRequest
    \/ WalletInfoAttach
    \/ \E includeMainWallet \in BOOLEAN : CallGetMyAccountInfo(includeMainWallet)
    \/ AccountAfterRequest
    \/ AccountAttach
    \/ Return

Spec == Init /\ [][Next]_vars

\* The caller notes what the call returned and calls again.
ReturnRemember ==
    /\ EndCall
    /\ prev' = [valid |-> TRUE, args |-> args, http |-> lastHttp,
                nodeFailed |-> \E i \in 1..Len(fetches) : fetches[i].st = "rejected",
                completed |-> completed, data |-> data, outcome |-> outcome]

\* Consecutive getMyWalletInfo calls of one caller against an unchanged REST
\* service: a call after the first passes the arguments of the one before,
\* and the service answers it as it answered the one before.  The node
\* answers each query in its own time.
NextTwice ==
    \/ \E includeBalances \in BOOLEAN :
          prev = NoPrev /\ CallGetMyWalletInfo(includeBalances)
    \/ prev # NoPrev /\ CallGetMyWalletInfo(prev.args.include)
    \/ \E o \in HttpOutcomes(op) : prev = NoPrev /\ HttpSettle(o)
    \/ prev # NoPrev /\ HttpSettle(prev.http)
    \/ \E i \in 1..Len(fetches), ok \in BOOLEAN : ConnectSettle(i, ok)
    \/ \E i \in 1..Len(fetches), ok \in BOOLEAN :
          \E j \in fetches[i].pending : QuerySettle(i, j, ok)
    \/ MyWalletAfterRequest
    \/ MyWalletMerge
    \/ MyWalletRethrow
    \/ ReturnRemember

SpecTwice == Init /\ [][NextTwice]_vars

-----------------------------------------------------------------------------
(* Properties. *)

AggregationOps == {"getMyAccountInfo", "getMyWalletInfo", "getWalletInfo"}

Done(operation) == op = operation /\ pc = "done"

\* C1: every aggregation operation ends with a ProtocolResponse or with a
\* ProtocolError; no native exception reaches the caller.
C1_OnlyProtocolOutcomes ==
    (op \in AggregationOps /\ pc = "done")
        => outcome.kind \in {"response", "protocolError"}

\* The cases of C1 taken one at a time (each is violated on its own): a
\* failed node connection or balance query in getMyWalletInfo, and a 2xx
\* metadata response whose payload is null.
C1_NodeFailureIsProtocolError ==
    (Done("getMyWalletInfo") /\ pall.st = "rejected")
        => outcome.kind = "protocolError"

C1_NullPayloadIsProtocolError ==
    (Done("getMyWalletInfo") /\ reqResult.kind = "response" /\ data.shape = "null")
        => outcome.kind = "protocolError"

\* C2: when all the per-denomination queries of getBalances(address,
\* ...denoms) succeed, the call returns a list as long as denoms whose i-th
\* entry is the node's answer for denoms[i], whatever the completion order.
C2_BalancesInDenomOrder ==
    (Done("getBalances") /\ Len(args.denoms) > 0 /\ fetches[1].st = "fulfilled")
        => /\ outcome.kind = "balances"
           /\ DOMAIN outcome.bal = 1..Len(args.denoms)
           /\ \A i \in 1..Len(args.denoms) :
                /\ outcome.bal[i].denom = args.denoms[i]
                /\ outcome.bal[i] = NodeBalance(args.address, args.denoms[i])

\* C2 witness: two different denominations, the second answered first.
C2_Witness ==
    /\ Done("getBalances")
    /\ outcome.kind = "balances"
    /\ args.denoms = <<"uluna", "uthasa">>
    /\ completed = << <<1, 2>>, <<1, 1>> >>

\* A per-denomination query of this getBalances call failed.
SomeDenomQueryFailed ==
    /\ Len(fetches) = 1
    /\ Len(fetches[1].denoms) > 0
    /\ fetches[1].inner.st = "rejected"

\* C3: when one of the per-denomination queries fails, getBalances fails
\* with a typed error (a ProtocolError) and returns no balance list.
C3_QueryFailureIsTypedError ==
    (Done("getBalances") /\ SomeDenomQueryFailed)
        => outcome.kind = "protocolError"

\* The part of C3 the code keeps: the call fails and hands out no list, the
\* error being the raw rejection of the node client.
C3_NoPartialList ==
    (Done("getBalances") /\ SomeDenomQueryFailed)
        => outcome.kind = "nativeError" /\ outcome.bal = <<>>

\* C4: a successful getMyWalletInfo with includeBalances returns the list it
\* received, same length and order, the i-th wallet carrying the balances
\* fetched for the i-th wallet's address, whatever the completion order.
C4_MergeByIndex ==
    (Done("getMyWalletInfo") /\ args.include /\ outcome.kind = "response")
        => /\ Len(data.wallets) = Len(received)
           /\ Len(fetches) = Len(received)
           /\ \A i \in 1..Len(received) :
                /\ data.wallets[i].address = received[i].address
                /\ fetches[i].address = received[i].address
                /\ data.wallets[i].hasBalances
                /\ data.wallets[i].balances = fetches[i].value
                /\ data.wallets[i].balances = NodeAllBalances(received[i].address)

\* C4 witness: two wallets with different addresses, the second fetch
\* completing first.
C4_Witness ==
    /\ Done("getMyWalletInfo")
    /\ outcome.kind = "response"
    /\ Len(received) = 2
    /\ received[1].address # received[2].address
    /\ data.wallets[1].hasBalances
    /\ completed = << <<2, 1>>, <<1, 1>> >>

SomeBalancesAttached ==
    \E i \in 1..Len(data.wallets) : data.wallets[i].hasBalances

\* C5: in getMyWalletInfo every per-wallet fetch is started before the
\* operation awaits any; balances are written only after all fetches have
\* succeeded; and when a fetch fails the caller gets no response and no
\* wallet record has balances attached.
C5_JoinBeforeMerge ==
    op = "getMyWalletInfo" =>
        /\ pc = "await_all" =>
              /\ Len(fetches) = Len(received)
              /\ nodeCalls >= Len(received)
        /\ SomeBalancesAttached =>
              \A i \in 1..Len(received) :
                  i \in DOMAIN fetches /\ fetches[i].st = "fulfilled"
        /\ (\E i \in 1..Len(fetches) : fetches[i].st = "rejected") =>
              /\ outcome.kind # "response"
              /\ ~SomeBalancesAttached

\* C5 witness: one fetch succeeded, another failed, the operation has failed.
C5_Witness ==
    /\ Done("getMyWalletInfo")
    /\ Len(fetches) = 2
    /\ fetches[1].st = "fulfilled"
    /\ fetches[2].st = "rejected"
    /\ outcome.kind = "nativeError"
    /\ ~SomeBalancesAttached

\* C6: getWalletInfo with an address that does not decode fails with a
\* ProtocolError of status 400 and makes no REST and no node call.
C6_InvalidAddressIsBadRequest ==
    (Done("getWalletInfo") /\ DecodeThrows(args.address))
        => /\ outcome = ProtocolError(400, ERR_BAD_REQUEST)
           /\ httpCalls = 0
           /\ nodeCalls = 0

\* C7: isValidBech32Address returns true for an address that decodes and
\* false, without throwing, for one that does not.
C7_ValidatorNeverThrows ==
    Done("isValidBech32Address")
        => outcome = BooleanResult(~DecodeThrows(args.address))

\* C8: request() with an empty or undefined url fails with a ProtocolError
\* of status 400, for every method, and makes no call on the HTTP client.
C8_EmptyUrlIsBadRequest ==
    (op = "request" /\ Falsy(args.url))
        => /\ httpCalls = 0
           /\ http = "idle"
           /\ pc \in {"request_settled", "done"}
           /\ reqResult.kind = "protocolError" /\ reqResult.status = 400
           /\ pc = "done" => outcome = reqResult

\* C8 witness: a POST with the empty url has failed.
C8_Witness ==
    /\ Done("request")
    /\ args.url = ""
    /\ args.method = "POST"
    /\ outcome.kind = "protocolError"

\* C9: request() with a non-empty url and a method outside the enum fails,
\* as the caller observes it, with status 501, and makes no HTTP call.
C9_UnsupportedMethodIs501 ==
    (Done("request") /\ ~Falsy(args.url) /\ args.method \notin RequestMethod)
        => /\ outcome.kind = "protocolError"
           /\ outcome.status = 501
           /\ httpCalls = 0

\* C10: when the HTTP call of request() fails, the ProtocolError carries the
\* status of the HTTP response when there was one, and 500 when the failure
\* was an exception without a status.
C10_FailureStatus ==
    (pc \in {"request_settled", "done"} /\ lastHttp.kind = "rejected")
        => /\ reqResult.kind = "protocolError"
           /\ reqResult.status = IF lastHttp.hasResponse THEN lastHttp.status ELSE 500
           /\ Done("request") => outcome = reqResult

\* C10 witness: a 404 response has reached the caller of request().
C10_Witness ==
    /\ Done("request")
    /\ lastHttp.kind = "rejected"
    /\ lastHttp.hasResponse
    /\ lastHttp.status = 404
    /\ outcome.status = 404

\* C10 witness for the other case: a failure without a response.
C10_WitnessNoResponse ==
    /\ Done("request")
    /\ lastHttp.kind = "rejected"
    /\ ~lastHttp.hasResponse
    /\ outcome.status = 500

\* A call of request() that fails: no url, a method outside the enum, or an
\* HTTP call that was rejected.
RequestFails ==
    \/ Falsy(args.url)
    \/ args.method \notin RequestMethod
    \/ lastHttp.kind = "rejected"

\* C11: every failing call of request() throws a ProtocolError to its
\* caller, on every path; no raw exception of the HTTP client escapes.
C11_RequestThrowsOnlyProtocolError ==
    (op = "request" /\ pc \in {"request_settled", "done"})
        => /\ reqResult.kind \in {"response", "protocolError"}
           /\ RequestFails <=> reqResult.kind = "protocolError"
           /\ pc = "done" => outcome = reqResult

\* C11 witness: the HTTP client threw an exception that is no AxiosError and
\* the caller of request() caught a ProtocolError.
C11_Witness ==
    /\ Done("request")
    /\ lastHttp.kind = "rejected"
    /\ lastHttp.type = "Error"
    /\ outcome.kind = "protocolError"

\* C12: when the metadata request of getMyWalletInfo succeeds but the
\* response has no wallet list (no wallets field, or an empty payload), the
\* operation fails with a bad-response ProtocolError and makes no node call.
C12_MissingWalletListIsBadResponse ==
    (Done("getMyWalletInfo") /\ reqResult.kind = "response"
        /\ (lastHttp.data.shape # "object" \/ ~lastHttp.data.hasWallets))
        => /\ outcome = ProtocolError(500, ERR_BAD_RESPONSE)
           /\ nodeCalls = 0

\* The part of C12 the code keeps: a payload that is an object without a
\* wallets field, or the empty string, is a bad response.
C12_MissingFieldIsBadResponse ==
    (Done("getMyWalletInfo") /\ reqResult.kind = "response"
        /\ lastHttp.data.shape # "null" /\ ~lastHttp.data.hasWallets)
        => /\ outcome = ProtocolError(500, ERR_BAD_RESPONSE)
           /\ nodeCalls = 0

\* C13: when the metadata request of getWalletInfo succeeds with an empty
\* payload, the operation fails with a bad-response ProtocolError and makes
\* no node call, whatever includeBalances is.
C13_EmptyPayloadIsBadResponse ==
    (op = "getWalletInfo" /\ reqResult.kind = "response"
        /\ lastHttp.data.shape # "object")
        => /\ nodeCalls = 0
           /\ fetches = <<>>
           /\ pc \in {"request_settled", "done"}
           /\ pc = "done" => outcome = ProtocolError(500, ERR_BAD_RESPONSE)

\* C13 witness: includeBalances = true, a 200 response with a null payload.
C13_Witness ==
    /\ Done("getWalletInfo")
    /\ args.include
    /\ reqResult.kind = "response"
    /\ lastHttp.data.shape = "null"
    /\ outcome.kind = "protocolError"

\* C13 witness for includeBalances = false and a response without a body.
C13_WitnessNoBalances ==
    /\ Done("getWalletInfo")
    /\ ~args.include
    /\ reqResult.kind = "response"
    /\ lastHttp.data.shape = "empty"
    /\ outcome.kind = "protocolError"

\* C14, as claimed: when the account metadata request succeeds but the
\* response has no main-wallet sub-object, getMyAccountInfo fails with a
\* bad-response ProtocolError.
C14_MissingMainWalletIsBadResponse ==
    (Done("getMyAccountInfo") /\ reqResult.kind = "response"
        /\ ~lastHttp.data.hasMainWallet)
        => outcome = ProtocolError(500, ERR_BAD_RESPONSE)

\* C14, amended: getMyAccountInfo validates the account payload itself.  An
\* empty payload is a bad response; a payload without a main-wallet
\* sub-object is returned as the success response, unchanged, and no node
\* call is made.
C14_AccountPayloadIsValidated ==
    (op = "getMyAccountInfo" /\ reqResult.kind = "response"
        /\ ~lastHttp.data.hasMainWallet)
        => /\ nodeCalls = 0
           /\ fetches = <<>>
           /\ pc \in {"request_settled", "done"}
           /\ data = lastHttp.data
           /\ pc = "done" =>
                outcome = IF lastHttp.data.shape = "object"
                          THEN ProtocolResponse(lastHttp.status)
                          ELSE ProtocolError(500, ERR_BAD_RESPONSE)

\* C14 witness: includeMainWallet = true, the account object has no
\* mainWallet, and the caller has the success response.
C14_Witness ==
    /\ Done("getMyAccountInfo")
    /\ args.include
    /\ lastHttp.data.shape = "object"
    /\ ~lastHttp.data.hasMainWallet
    /\ outcome.kind = "response"

\* C15: getMyAccountInfo fetches balances only for a main wallet that is to
\* be included: none with includeMainWallet = false; with includeMainWallet
\* = true and a main wallet in the response exactly one fetch, for the main
\* wallet's address, whose result the returned main wallet carries.
C15_OneFetchForMainWallet ==
    op = "getMyAccountInfo" =>
        /\ Len(fetches) <= 1
        /\ ~args.include =>
              /\ nodeCalls = 0
              /\ fetches = <<>>
              /\ ~data.mainWallet.hasBalances
        /\ (args.include /\ reqResult.kind = "response" /\ lastHttp.data.hasMainWallet
                /\ pc \in {"await_fetch", "done"}) =>
              /\ Len(fetches) = 1
              /\ fetches[1].address = lastHttp.data.mainWallet.address
              /\ fetches[1].denoms = <<>>
        /\ (pc = "done" /\ outcome.kind = "response" /\ args.include
                /\ lastHttp.data.hasMainWallet) =>
              /\ data.mainWallet.address = lastHttp.data.mainWallet.address
              /\ data.mainWallet.hasBalances
              /\ data.mainWallet.balances = fetches[1].value
              /\ data.mainWallet.balances = NodeAllBalances(fetches[1].address)
        /\ data.mainWallet.hasBalances => (pc = "done" /\ outcome.kind = "response")

\* C15 witness: the main wallet came back with its balances.
C15_Witness ==
    /\ Done("getMyAccountInfo")
    /\ args.include
    /\ outcome.kind = "response"
    /\ data.mainWallet.hasBalances
    /\ data.mainWallet.address = "th1zpjsmyh"
    /\ nodeCalls = 2

\* C15 witness for the other case: includeMainWallet = false, a main wallet
\* in the response, no node call.
C15_WitnessNotIncluded ==
    /\ Done("getMyAccountInfo")
    /\ ~args.include
    /\ lastHttp.data.hasMainWallet
    /\ outcome.kind = "response"
    /\ nodeCalls = 0

\* C16: for a valid address A, a successful getWalletInfo(A, true) returns
\* the metadata record unchanged plus the node's balances for A, whatever
\* address the metadata record holds.
C16_BalancesOfPassedAddress ==
    (Done("getWalletInfo") /\ args.include /\ outcome.kind = "response"
        /\ args.address \in ChainAddrs)
        => /\ data.address = lastHttp.data.address
           /\ data.hasBalances
           /\ data.balances = NodeAllBalances(args.address)

\* What the code does instead: the balances are those of the address found
\* in the metadata record.
C16_BalancesOfPayloadAddress ==
    (Done("getWalletInfo") /\ args.include /\ outcome.kind = "response")
        => /\ data.address = lastHttp.data.address
           /\ data.hasBalances
           /\ data.balances = NodeAllBalances(lastHttp.data.address)

\* C18: getMyWalletInfo fetches balances only when asked to.  Without
\* includeBalances it makes no node call and returns the metadata response
\* untouched; with includeBalances and N wallets it starts exactly N
\* fetches, one per wallet in list order, none for an empty list, which
\* still succeeds.
C18_FetchesOnlyWhenRequested ==
    op = "getMyWalletInfo" =>
        /\ ~args.include =>
              /\ nodeCalls = 0
              /\ fetches = <<>>
              /\ data = lastHttp.data
              /\ (pc = "done" /\ reqResult.kind = "response" /\ lastHttp.data.hasWallets)
                    => outcome = reqResult
        /\ (args.include /\ pall.st = "none") =>
              /\ nodeCalls = 0
              /\ fetches = <<>>
        /\ (args.include /\ pall.st # "none") =>
              /\ Len(fetches) = Len(received)
              /\ pall.n = Len(received)
              /\ \A i \in 1..Len(received) :
                    /\ fetches[i].address = received[i].address
                    /\ fetches[i].denoms = <<>>
        /\ (args.include /\ reqResult.kind = "response" /\ lastHttp.data.hasWallets
                /\ pc \in {"await_all", "done"}) => pall.st # "none"
        /\ (args.include /\ pc = "done" /\ reqResult.kind = "response"
                /\ lastHttp.data.hasWallets /\ received = <<>>) =>
              /\ outcome = reqResult
              /\ nodeCalls = 0

\* C18 witness: includeBalances, two wallets, two fetches, a response.
C18_Witness ==
    /\ Done("getMyWalletInfo")
    /\ args.include
    /\ Len(received) = 2
    /\ Len(fetches) = 2
    /\ outcome.kind = "response"

\* C18 witness: includeBalances and an empty wallet list.
C18_WitnessEmptyList ==
    /\ Done("getMyWalletInfo")
    /\ args.include
    /\ lastHttp.data.hasWallets
    /\ received = <<>>
    /\ outcome.kind = "response"

\* C18 witness: no includeBalances, two wallets, no node call.
C18_WitnessNotRequested ==
    /\ Done("getMyWalletInfo")
    /\ ~args.include
    /\ Len(received) = 2
    /\ outcome.kind = "response"
    /\ nodeCalls = 0

\* C19: an aggregation operation validates its input, fetches the metadata,
\* fetches the balances, merges and returns, in that order.  No node call
\* starts before the metadata request has returned successfully; the
\* payload is written only at the merge; when the metadata request fails
\* the operation fails with what request() threw and without a node call.
C19_PipelineOrder ==
    op \in AggregationOps =>
        /\ (op = "getWalletInfo" /\ DecodeThrows(args.address)) =>
              (httpCalls = 0 /\ nodeCalls = 0)
        /\ (nodeCalls > 0 \/ fetches # <<>>) =>
              /\ lastHttp.kind = "fulfilled"
              /\ reqResult.kind = "response"
              /\ http = "idle"
        /\ data # lastHttp.data =>
              /\ pc = "done"
              /\ outcome.kind = "response"
              /\ \A i \in 1..Len(fetches) : fetches[i].st = "fulfilled"
        /\ (pc = "done" /\ lastHttp.kind = "rejected") =>
              /\ outcome = reqResult
              /\ outcome.kind = "protocolError"
              /\ nodeCalls = 0

\* C19 witness: the metadata request of getMyWalletInfo(includeBalances)
\* got a 404 and the operation has failed.
C19_Witness ==
    /\ Done("getMyWalletInfo")
    /\ args.include
    /\ lastHttp.kind = "rejected"
    /\ lastHttp.status = 404
    /\ outcome.status = 404
    /\ nodeCalls = 0

\* C19 witness: balances were merged into the payload after every fetch.
C19_WitnessMerged ==
    /\ Done("getWalletInfo")
    /\ data # lastHttp.data
    /\ nodeCalls = 2

\* C17: two consecutive getMyWalletInfo calls with the same arguments
\* against an unchanged REST service and an unchanged node give equal
\* results: the same payload and the same outcome, in whatever order the
\* node's answers arrive in either call.
C17_RepeatedCallSameResult ==
    (/\ prev.valid
     /\ Done("getMyWalletInfo")
     /\ args = prev.args
     /\ lastHttp = prev.http
     /\ (\E i \in 1..Len(fetches) : fetches[i].st = "rejected") = prev.nodeFailed)
        => /\ data = prev.data
           /\ outcome = prev.outcome

\* C17 witness: the second call merged the balances of two different
\* wallets, and the node's answers came in another order than in the first.
C17_Witness ==
    /\ prev.valid
    /\ Done("getMyWalletInfo")
    /\ args.include
    /\ args = prev.args
    /\ lastHttp = prev.http
    /\ outcome.kind = "response"
    /\ Len(received) = 2
    /\ received[1].address # received[2].address
    /\ completed # prev.completed
    /\ data = prev.data

=============================================================================
